---------------------------- MODULE Spec2Model ----------------------------
(***************************************************************************)
(* Model of docs/conf.py of the grapheditor repository: the Sphinx         *)
(* configuration with its sphinx-js monkey patch (CustomAnalyzer) and the  *)
(* project information read from package.json and pyproject.toml.          *)
(*                                                                         *)
(* Conventions.  JSON values are tagged records: [j |-> "str", s |-> ..],  *)
(* [j |-> "dict", d |-> function from keys], [j |-> "list", l |-> seq].    *)
(* A path string is the sequence of its components, with "/" as the first  *)
(* component when the path is absolute; the empty string is << >>.         *)
(* The backtick character is written BT.                                   *)
(***************************************************************************)
EXTENDS Integers, Sequences, FiniteSets, TLC

VARIABLES
    environ,            \* os.environ: the READTHEDOCS and SKIP_TYPEDOC entries
    SKIP_TYPEDOC,       \* module global of line 26
    package_json,       \* module global of line 376
    pyproject_toml,     \* module global of line 371
    author,             \* module global of line 386
    copyright,          \* module global of line 388
    typedoc_json,       \* content of the file <confdir>/typedoc.json
    load_pc,            \* position inside _load_typedoc_output
    load_before,        \* content of typedoc.json when the call started
    load_log,           \* what the call did so far: "command", "read", "write"
    load_ret,           \* value returned by the call
    tn_type,            \* argument of the last _type_name call
    tn_result,          \* its outcome: text returned or exception raised
    an_pc,              \* life of the CustomAnalyzer: new, indexed, converting, ready
    index,              \* self._index: the nodes of the JSON, by position
    index_by_name_and_kind, \* self._index_by_name_and_kind
    tlp_node,           \* the node of the last _top_level_properties call
    tlp_result,         \* its outcome
    cn_pc,              \* position inside _convert_node
    cn_chain,           \* the node being converted and its '__parent' chain
    cn_parent           \* the local variable parent of _convert_node

confVars == <<environ, SKIP_TYPEDOC, package_json, pyproject_toml, author, copyright>>
loadVars == <<typedoc_json, load_pc, load_before, load_log, load_ret>>
typeVars == <<tn_type, tn_result>>
linkVars == <<an_pc, index, index_by_name_and_kind, tlp_node, tlp_result>>
nodeVars == <<cn_pc, cn_chain, cn_parent>>

vars == <<confVars, loadVars, typeVars, linkVars, nodeVars>>
notLoadVars == <<confVars, typeVars, linkVars, nodeVars>>
notTypeVars == <<confVars, loadVars, linkVars, nodeVars>>
notLinkVars == <<confVars, loadVars, typeVars, nodeVars>>
notNodeVars == <<confVars, loadVars, typeVars, linkVars>>

-----------------------------------------------------------------------------
(* Bounds of the model *)

\* nesting depth of the generated typedoc.json documents
MaxDepth == 4

-----------------------------------------------------------------------------
(* Small helpers for Python values *)

Has(d, k) == k \in DOMAIN d

RECURSIVE JoinStr(_, _)
\* sep.join(parts) for a sequence of strings
JoinStr(sep, parts) ==
    IF parts = << >> THEN ""
    ELSE IF Len(parts) = 1 THEN parts[1]
    ELSE parts[1] \o sep \o JoinStr(sep, Tail(parts))

SeqsUpTo(S, n) == UNION { [1..k -> S] : k \in 0..n }

Digit(n) == <<"0", "1", "2", "3", "4", "5", "6", "7", "8", "9">>[n + 1]

RECURSIVE PyStrInt(_)
\* str(n) for a natural number
PyStrInt(n) == IF n < 10 THEN Digit(n) ELSE PyStrInt(n \div 10) \o Digit(n % 10)

-----------------------------------------------------------------------------
(* Module import: lines 25-26 and 350-393 *)

EnvValues == {"unset", "True", "1"}

Environs == [READTHEDOCS : EnvValues, SKIP_TYPEDOC : EnvValues]

ON_RTD(env) == env.READTHEDOCS = "True"

SkipTypedoc_NoRtd(env) == env.SKIP_TYPEDOC = "True"

SkipTypedoc(env) == ON_RTD(env) \/ env.SKIP_TYPEDOC = "True"

\* the default of doc_package_config.get("authors", ...): a str, not a list
DefaultAuthors ==
    [j |-> "str",
     chars |-> <<"F", "a", "b", "i", "a", "n", " ", "B", "ü", "h", "l", "e", "r">>]

\* iterating a Python value: a list yields its items, a str its characters
PyIter(v) == IF v.j = "list" THEN v.l ELSE v.chars

PackageJsons == {[version |-> "0.7.0"], [version |-> "0.7.0", author |-> "MICO Authors"]}

PoetryConfigs ==
    { [name |-> "docs"] }
    \cup { [name |-> "docs", authors |-> [j |-> "list", l |-> a]] :
            a \in { <<"Fabian Buehler">>, <<"Ann A", "Bob B">> } }

SphinxConfigs == { << >>, ("copyright-year" :> 2019) }

PyprojectTomls == [poetry : PoetryConfigs, sphinx : SphinxConfigs]

DictGet(d, k, default) == IF Has(d, k) THEN d[k] ELSE default

Author(pkg, doc_package_config) ==
    DictGet(pkg, "author",
            JoinStr(", ", PyIter(DictGet(doc_package_config, "authors", DefaultAuthors))))

CopyrightYear(sphinx_config) == DictGet(sphinx_config, "copyright-year", 2021)

Copyright(year, authors) == PyStrInt(year) \o ", " \o authors

-----------------------------------------------------------------------------
(* typedoc.json documents and pathlib *)

abs_source_path == <<"/", "home", "dev", "grapheditor">>

Paths ==
    { << >>,
      abs_source_path \o <<"src", "grapheditor.ts">>,
      <<"/", "usr", "lib", "node_modules", "lib.d.ts">>,
      <<"src", "edge.ts">> }

JStr(s) == [j |-> "str", s |-> s]
JDict(d) == [j |-> "dict", d |-> d]
JList(l) == [j |-> "list", l |-> l]

RECURSIVE JNodes(_)
\* the objects and arrays of nesting depth at most n
JNodes(n) ==
    IF n = 0 THEN {}
    ELSE LET below == JNodes(n - 1) IN
         { JDict("originalName" :> JStr(p)) : p \in Paths }
         \cup { JDict("children" :> v) : v \in below }
         \cup { JList(<<v>>) : v \in below }

Docs == { v \in JNodes(MaxDepth) : v.j = "dict" }

IsAbsolute(s) == s # << >> /\ s[1] = "/"

IsPrefix(a, b) == Len(a) <= Len(b) /\ SubSeq(b, 1, Len(a)) = a

\* Path(filepath).relative_to(base) does not raise ValueError
CanRelativeTo(s, base) == IsAbsolute(s) = IsAbsolute(base) /\ IsPrefix(base, s)

\* str(Path(filepath).relative_to(base))
RelativeTo(s, base) ==
    LET rest == SubSeq(s, Len(base) + 1, Len(s)) IN
    IF rest = << >> THEN <<".">> ELSE rest

Truthy(v) ==
    CASE v.j = "str" -> v.s # << >>
      [] v.j = "dict" -> DOMAIN v.d # {}
      [] v.j = "list" -> v.l # << >>

RECURSIVE SanitizeRaises(_)
\* sanitize_typedoc_json(typedoc) raises (ValueError of relative_to, or
\* TypeError of Path() on a value that is no string)
SanitizeRaises(typedoc) ==
    IF typedoc.j # "dict" THEN FALSE
    ELSE \E key \in DOMAIN typedoc.d :
            LET x == typedoc.d[key] IN
            \/ x.j = "dict" /\ SanitizeRaises(x)
            \/ x.j = "list" /\ \E i \in 1..Len(x.l) : SanitizeRaises(x.l[i])
            \/ /\ key = "originalName"
               /\ Truthy(x)
               /\ (x.j # "str" \/ ~CanRelativeTo(x.s, abs_source_path))

RECURSIVE SanitizeTypedocJson(_)
\* the document as sanitize_typedoc_json(typedoc) leaves it
SanitizeTypedocJson(typedoc) ==
    IF typedoc.j # "dict" THEN typedoc
    ELSE JDict([key \in DOMAIN typedoc.d |->
            LET x == typedoc.d[key] IN
            IF x.j = "dict" THEN SanitizeTypedocJson(x)
            ELSE IF x.j = "list"
                 THEN JList([i \in 1..Len(x.l) |-> SanitizeTypedocJson(x.l[i])])
            ELSE IF key = "originalName" /\ Truthy(x)
                 THEN JStr(RelativeTo(x.s, abs_source_path))
            ELSE x])

-----------------------------------------------------------------------------
(* Initial state: conf.py has been imported *)

\* a typedoc.json left by an earlier build (sanitized, as committed)
PriorDocs ==
    { JDict("originalName" :> JStr(<<"src", "edge.ts">>)),
      JDict("children" :> JList(<<JDict("originalName" :> JStr(<< >>))>>)) }

NoDoc == JDict(<< >>)

\* lines 25-26 and 369-388 have run, on an environment of envs and manifests
\* of pkgs and tomls
ConfImported(envs, pkgs, tomls) ==
    /\ environ \in envs
    /\ SKIP_TYPEDOC = SkipTypedoc(environ)
    /\ package_json \in pkgs
    /\ pyproject_toml \in tomls
    /\ author = Author(package_json, pyproject_toml.poetry)
    /\ copyright = Copyright(CopyrightYear(pyproject_toml.sphinx), author)

\* a developer's checkout: nothing set in the environment, both manifests complete
ConfDeveloper ==
    ConfImported({[READTHEDOCS |-> "unset", SKIP_TYPEDOC |-> "unset"]},
                 {[version |-> "0.7.0", author |-> "MICO Authors"]},
                 {[poetry |-> [name |-> "docs"], sphinx |-> << >>]})

\* no call of _load_typedoc_output is under way
LoadIdle(docs) ==
    /\ typedoc_json \in docs
    /\ load_pc = "idle"
    /\ load_before = NoDoc
    /\ load_log = << >>
    /\ load_ret = NoDoc

NoType == [type |-> "none"]
NoResult == [exc |-> "none", s |-> "", sup |-> 0]

\* _type_name has not been called yet
TypesIdle == tn_type = NoType /\ tn_result = NoResult

-----------------------------------------------------------------------------
(* CustomAnalyzer._load_typedoc_output, lines 98-145 *)

ShouldRunTypedoc == ~SKIP_TYPEDOC

\* lines 99-110: the command line is built, then SKIP_TYPEDOC is tested
LoadTypedocOutput ==
    /\ load_pc = "idle"
    /\ load_before' = typedoc_json
    /\ load_log' = << >>
    /\ load_ret' = NoDoc
    /\ load_pc' = IF ShouldRunTypedoc THEN "command" ELSE "final_read"
    /\ UNCHANGED <<typedoc_json, notLoadVars>>

\* lines 111-117: subprocess.call; typedoc writes a document, or exits
\* without writing, or the program cannot be started
RunCommand ==
    /\ load_pc = "command"
    /\ \/ /\ \E doc \in Docs : typedoc_json' = doc
          /\ load_log' = Append(load_log, "command")
          /\ load_pc' = "sanitize"
       \/ /\ UNCHANGED typedoc_json
          /\ load_log' = Append(load_log, "command")
          /\ load_pc' = "sanitize"
       \/ /\ UNCHANGED <<typedoc_json, load_log>>
          /\ load_pc' \in {"SphinxError", "OSError"}
    /\ UNCHANGED <<load_before, load_ret, notLoadVars>>

\* lines 134-140: read, sanitize in memory, write back
Sanitize ==
    /\ load_pc = "sanitize"
    /\ IF SanitizeRaises(typedoc_json)
       THEN /\ load_pc' = "ValueError"
            /\ load_log' = Append(load_log, "read")
            /\ UNCHANGED typedoc_json
       ELSE /\ typedoc_json' = SanitizeTypedocJson(typedoc_json)
            /\ load_log' = load_log \o <<"read", "write">>
            /\ load_pc' = "final_read"
    /\ UNCHANGED <<load_before, load_ret, notLoadVars>>

\* lines 143-145
FinalRead ==
    /\ load_pc = "final_read"
    /\ load_ret' = typedoc_json
    /\ load_log' = Append(load_log, "read")
    /\ load_pc' = "returned"
    /\ UNCHANGED <<typedoc_json, load_before, notLoadVars>>

\* the next build of the documentation starts over with the file as it is
NextBuild ==
    /\ load_pc \in {"returned", "SphinxError", "OSError", "ValueError"}
    /\ load_pc' = "idle"
    /\ load_before' = NoDoc
    /\ load_log' = << >>
    /\ load_ret' = NoDoc
    /\ UNCHANGED <<typedoc_json, notLoadVars>>

-----------------------------------------------------------------------------
(* CustomAnalyzer._type_name, lines 171-232 *)

\* Outcome of a call: the text returned (s), or the exception raised (exc),
\* and how many times the parent class's _type_name was entered (sup).
Returns(s) == [exc |-> "", s |-> s, sup |-> 0]
Raises(e) == [exc |-> e, s |-> "", sup |-> 0]

\* a followed by b: the first exception wins and ends the evaluation
Then(a, b) ==
    IF a.exc # "" THEN a
    ELSE IF b.exc # "" THEN b
    ELSE [exc |-> "", s |-> a.s \o b.s, sup |-> a.sup + b.sup]

RECURSIVE JoinResults(_, _)
\* sep.join(...) over outcomes evaluated left to right
JoinResults(sep, rs) ==
    IF rs = << >> THEN Returns("")
    ELSE IF Len(rs) = 1 THEN rs[1]
    ELSE Then(Then(rs[1], Returns(sep)), JoinResults(sep, Tail(rs)))

\* str(value) of a JSON scalar that is neither a string nor null
PyStr(v) ==
    CASE v.j = "num" -> PyStrInt(v.n)
      [] v.j = "bool" -> IF v.b THEN "True" ELSE "False"

\* lines 226-231
LiteralName_NoQuotes(type) ==
    IF ~Has(type, "value") \/ type.value.j = "null" THEN "null"
    ELSE IF type.value.j = "str" THEN type.value.s
    ELSE PyStr(type.value)

LiteralName(type) ==
    IF Has(type, "value") /\ type.value.j = "str" THEN "\"" \o type.value.s \o "\""
    ELSE IF ~Has(type, "value") \/ type.value.j = "null" THEN "null"
    ELSE PyStr(type.value)

\* "if p.get('type')": the entries that carry a type
Typed(entries) == SelectSeq(entries, LAMBDA p : Has(p, "type"))

RECURSIVE TypeName(_)
RECURSIVE TypeNameOf(_, _)
RECURSIVE SuperTypeName(_)

\* self._type_name(d.get(key)): None is rendered as NONE (lines 177-178)
TypeNameOf(d, key) == IF Has(d, key) THEN TypeName(d[key]) ELSE Returns("NONE")

\* name + ': ' + self._type_name(p.get('type'))
NamedType(p) == Then(Returns(p.name \o ": "), TypeNameOf(p, "type"))

\* lines 186-190: '(' + ', '.join(...) + ') => ' + return type
SignatureName(signature) ==
    LET parameters == Typed(DictGet(signature, "parameters", << >>))
        shown == [i \in 1..Len(parameters) |-> NamedType(parameters[i])]
    IN  Then(Then(Then(Returns("("), JoinResults(", ", shown)), Returns(") => ")),
             TypeNameOf(signature, "type"))

\* lines 206-210: one entry of extras per index signature
IndexSignatureName(sig) ==
    LET inner_text ==
            IF DictGet(sig, "parameters", << >>) # << >>
            THEN NamedType(sig.parameters[1])
            ELSE Returns("")
    IN  Then(Then(Then(Returns("["), inner_text), Returns("]: ")), TypeNameOf(sig, "type"))

\* lines 194-214
ChildrenName(declaration) ==
    LET children == Typed(declaration.children)
        variables ==
            JoinResults(", ", [i \in 1..Len(children) |-> NamedType(children[i])])
    IN  IF Has(declaration, "indexSignature") /\ Truthy(declaration.indexSignature)
        THEN LET given == declaration.indexSignature
                 index_signature == IF given.j = "dict" THEN <<given.d>> ELSE given.l
                 extras == <<variables>> \o
                           [i \in 1..Len(index_signature) |->
                                IndexSignatureName(index_signature[i])]
             IN  Then(Then(Returns("{"), JoinResults(", ", extras)), Returns("}"))
        ELSE Then(Then(Returns("{"), variables), Returns("}"))

\* lines 216-223
TypeParameterName(type) ==
    IF ~Has(type, "constraint")
    THEN Raises("AttributeError")       \* None.get('type')
    ELSE IF DictGet(type.constraint, "type", "") \in {"union", "reference"}
         THEN Then(Returns(type.name \o " extends "), TypeName(type.constraint))
         ELSE Returns(type.name)

TypeName(type) ==
    LET type_of_type == DictGet(type, "type", "")
        declaration == DictGet(type, "declaration", << >>)
    IN  IF type_of_type = "reflection"
             /\ DictGet(declaration, "signatures", << >>) # << >>
        THEN JoinResults(" ", [i \in 1..Len(declaration.signatures) |->
                                    SignatureName(declaration.signatures[i])])
        ELSE IF type_of_type = "reflection"
                  /\ DictGet(declaration, "children", << >>) # << >>
        THEN ChildrenName(declaration)
        ELSE IF type_of_type = "typeParameter" THEN TypeParameterName(type)
        ELSE IF type_of_type = "literal" THEN Returns(LiteralName(type))
        ELSE SuperTypeName(type)

\* line 232: Analyzer._type_name of sphinx_js, which the class overrides: the
\* name of an intrinsic or reference type, the members of a union through
\* self._type_name, a placeholder for what it does not know
SuperTypeName(type) ==
    LET type_of_type == DictGet(type, "type", "")
        entered == [exc |-> "", s |-> "", sup |-> 1]
    IN  IF type_of_type \in {"intrinsic", "reference"}
        THEN Then(entered, Returns(type.name))
        ELSE IF type_of_type = "union"
        THEN Then(entered, JoinResults("|", [i \in 1..Len(type.types) |->
                                                    TypeName(type.types[i])]))
        ELSE Then(entered, Returns("<TODO>"))

-----------------------------------------------------------------------------
(* Type nodes of TypeDoc the model calls _type_name with *)

\* parameters per signature, signatures per declaration, children per
\* declaration, index signatures per declaration
MaxParams == 2
MaxSignatures == 2
MaxChildren == 2
MaxIndexSignatures == 2

TString == [type |-> "intrinsic", name |-> "string"]
TNumber == [type |-> "intrinsic", name |-> "number"]
TNode == [type |-> "reference", name |-> "Node"]
TLeft == [type |-> "literal", value |-> [j |-> "str", s |-> "left"]]

LiteralValues ==
    { [j |-> "str", s |-> "left"], [j |-> "str", s |-> ""], [j |-> "null"],
      [j |-> "num", n |-> 0], [j |-> "num", n |-> 42],
      [j |-> "bool", b |-> TRUE], [j |-> "bool", b |-> FALSE] }

LiteralTypes ==
    { [type |-> "literal"] } \cup { [type |-> "literal", value |-> v] : v \in LiteralValues }

UnionTypes ==
    { [type |-> "union", types |-> <<TLeft, [type |-> "literal", value |-> [j |-> "null"]]>>],
      [type |-> "union", types |-> <<TString, TNode>>] }

TypeParameterTypes ==
    { [type |-> "typeParameter", name |-> "T"] }
    \cup { [type |-> "typeParameter", name |-> "T", constraint |-> c] :
            c \in UnionTypes \cup {TNode, TString, TLeft} }

TCallback ==
    [type |-> "reflection",
     declaration |-> [signatures |-> <<[parameters |-> <<[name |-> "e", type |-> TNode]>>]>>]]

ParameterNodes ==
    { [name |-> "x", type |-> TNumber],
      [name |-> "side", type |-> TLeft],
      [name |-> "rest"],
      [name |-> "item", type |-> [type |-> "typeParameter", name |-> "T"]],
      [name |-> "cb", type |-> TCallback] }

SignatureNodes ==
    { [type |-> TString], << >> }
    \cup { [parameters |-> ps, type |-> TString] : ps \in SeqsUpTo(ParameterNodes, MaxParams) }
    \cup { [parameters |-> ps] : ps \in SeqsUpTo(ParameterNodes, MaxParams) }

\* the signatures after the first are drawn from two fixed ones
FurtherSignatures ==
    { [parameters |-> <<[name |-> "x", type |-> TNumber]>>, type |-> TNumber],
      [parameters |-> <<[name |-> "rest"]>>] }

SignatureLists ==
    { <<first>> \o more : first \in SignatureNodes,
                          more \in SeqsUpTo(FurtherSignatures, MaxSignatures - 1) }

ChildNodes ==
    { [name |-> "x", type |-> TNumber],
      [name |-> "side", type |-> TLeft],
      [name |-> "hidden"] }

ChildLists == SeqsUpTo(ChildNodes, MaxChildren) \ { << >> }

IndexSignatureNodes ==
    { [parameters |-> <<[name |-> "key", type |-> TString]>>, type |-> TNumber],
      [type |-> TNode] }

IndexSignatureValues ==
    { JDict(sig) : sig \in IndexSignatureNodes }
    \cup { JList(sigs) : sigs \in SeqsUpTo(IndexSignatureNodes, MaxIndexSignatures) }

ReflectionTypes ==
    { [type |-> "reflection"], [type |-> "reflection", declaration |-> << >>],
      [type |-> "reflection", declaration |-> [signatures |-> << >>, children |-> << >>]] }
    \cup { [type |-> "reflection", declaration |-> [signatures |-> sigs]] :
            sigs \in SignatureLists }
    \cup { [type |-> "reflection", declaration |-> [children |-> cs]] : cs \in ChildLists }
    \cup { [type |-> "reflection", declaration |-> [children |-> cs, indexSignature |-> ix]] :
            cs \in ChildLists, ix \in IndexSignatureValues }

TypeNodes ==
    LiteralTypes \cup UnionTypes \cup TypeParameterTypes \cup ReflectionTypes
    \cup {TString, TNumber, TNode}

\* one call of _type_name(type) from the conversion of a node
TypeNameCall ==
    /\ tn_result = NoResult
    /\ \E type \in TypeNodes :
          /\ tn_type' = type
          /\ tn_result' = TypeName(type)
    /\ UNCHANGED notTypeVars

\* the caller has taken the text, or the exception
TypeNameEnds ==
    /\ tn_result # NoResult
    /\ tn_type' = NoType
    /\ tn_result' = NoResult
    /\ UNCHANGED notTypeVars

-----------------------------------------------------------------------------
(* CustomAnalyzer._convert_node: the lookup of 'sources', lines 241-252     *)
(*                                                                         *)
(* cn_chain[1] is the node, cn_chain[i + 1] is the '__parent' of            *)
(* cn_chain[i]; cn_parent is the position in the chain of the local         *)
(* variable parent, 0 for None.                                             *)

MaxChain == 3

SourceLists == { <<[fileName |-> f]>> : f \in {"grapheditor.ts", "edge.ts"} }

ChainNodes(kinds) ==
    { [kindString |-> k] : k \in kinds }
    \cup { [kindString |-> k, sources |-> s] : k \in kinds, s \in SourceLists }

Chains ==
    { <<node>> \o ancestors :
        node \in ChainNodes({"Function", "Constructor", "Method", "Class"}),
        ancestors \in SeqsUpTo(ChainNodes({"Module"}), MaxChain - 1) }

SourcesIdle ==
    /\ cn_pc = "idle"
    /\ cn_chain = << >>
    /\ cn_parent = 0

\* node.get('__parent') of line 248
ParentOfNode(chain, parent) == IF Len(chain) >= 2 THEN 2 ELSE 0

GROUP_TO_KIND_STRING ==
    << <<"Constructors", "Constructor">>,
       <<"Accessors", "Accessor">>,
       <<"References", "Reference">>,
       <<"Variables", "Variable">>,
       <<"Modules", "Module">>,
       <<"External Modules", "External module">>,
       <<"Properties", "Property">>,
       <<"Enumerations", "Enumeration">>,
       <<"Classes", "Class">>,
       <<"Enumeration Members", "Enumeration member">>,
       <<"Methods", "Method">>,
       <<"Functions", "Function">>,
       <<"Interfaces", "Interface">>,
       <<"Call Signatures", "Call signature">>,
       <<"Constructor Signatures", "Constructor signature">> >>

RECURSIVE KindStringFrom(_, _)
\* GROUP_TO_KIND_STRING.get(title) from entry i on: "" for None
KindStringFrom(i, title) ==
    IF i > Len(GROUP_TO_KIND_STRING) THEN ""
    ELSE IF GROUP_TO_KIND_STRING[i][1] = title THEN GROUP_TO_KIND_STRING[i][2]
    ELSE KindStringFrom(i + 1, title)

GroupKindString_Title(group) == DictGet(group, "title", "")

\* line 237
GroupKindString(group) == KindStringFrom(1, DictGet(group, "title", ""))

\* line 240: self._index.get(node_id, {})["kindString"] = group_kind_string;
\* for an id that _index has not, the dict written to is the default, dropped
SetKindString(idx, node_id, group_kind_string) ==
    IF node_id \in DOMAIN idx
    THEN [idx EXCEPT ![node_id] =
             [k \in DOMAIN idx[node_id] \cup {"kindString"} |->
                 IF k = "kindString" THEN group_kind_string ELSE idx[node_id][k]]]
    ELSE idx

RECURSIVE SetKindStrings(_, _, _)
\* lines 239-240
SetKindStrings(idx, children, group_kind_string) ==
    IF children = << >> THEN idx
    ELSE SetKindStrings(SetKindString(idx, Head(children), group_kind_string),
                        Tail(children), group_kind_string)

RECURSIVE ProcessGroups(_, _)
\* lines 236-240
ProcessGroups(idx, groups) ==
    IF groups = << >> THEN idx
    ELSE LET group_kind_string == GroupKindString(Head(groups))
             done == IF group_kind_string # ""
                     THEN SetKindStrings(idx, DictGet(Head(groups), "children", << >>),
                                         group_kind_string)
                     ELSE idx
         IN  ProcessGroups(done, Tail(groups))

\* lines 236-244 for a node and its '__parent' chain: the groups, then the
\* call up to "parent = node"
ConvertNodeFrom(chains) ==
    /\ cn_pc = "idle"
    /\ \E chain \in chains :
          /\ cn_chain' = chain
          /\ index' = ProcessGroups(index, DictGet(chain[1], "groups", << >>))
          /\ IF chain[1].kindString \in {"Function", "Constructor", "Method"}
             THEN cn_parent' = 1 /\ cn_pc' = "while"
             ELSE cn_parent' = 0 /\ cn_pc' = "rest"
    /\ UNCHANGED <<confVars, loadVars, typeVars,
                   an_pc, index_by_name_and_kind, tlp_node, tlp_result>>

\* a node without groups
ConvertNode == ConvertNodeFrom(Chains)

\* line 245: "while parent:", with the else clause of lines 249-250
WhileParent ==
    /\ cn_pc = "while"
    /\ cn_pc' = IF cn_parent # 0 THEN "if" ELSE "KeyError"
    /\ UNCHANGED <<cn_chain, cn_parent, notNodeVars>>

\* lines 246-247
IfSourcesInParent ==
    /\ cn_pc = "if"
    /\ cn_pc' = IF Has(cn_chain[cn_parent], "sources") THEN "after" ELSE "assign"
    /\ UNCHANGED <<cn_chain, cn_parent, notNodeVars>>

\* line 248
AssignParent ==
    /\ cn_pc = "assign"
    /\ cn_parent' = ParentOfNode(cn_chain, cn_parent)
    /\ cn_pc' = "while"
    /\ UNCHANGED <<cn_chain, notNodeVars>>

\* lines 251-252
CopySources ==
    /\ cn_pc = "after"
    /\ cn_chain' =
          IF cn_parent # 0
          THEN [cn_chain EXCEPT ![1] =
                    [k \in DOMAIN cn_chain[1] \cup {"sources"} |->
                        IF k = "sources" THEN cn_chain[cn_parent].sources
                        ELSE cn_chain[1][k]]]
          ELSE cn_chain
    /\ cn_pc' = "rest"
    /\ UNCHANGED <<cn_parent, notNodeVars>>

\* lines 253-277 read and write neither 'sources' nor '__parent'; the call
\* returns, or has raised, and the next node is converted
ConvertNodeEnds ==
    /\ cn_pc \in {"rest", "KeyError"}
    /\ cn_pc' = "idle"
    /\ cn_chain' = << >>
    /\ cn_parent' = 0
    /\ UNCHANGED notNodeVars

-----------------------------------------------------------------------------
(* CustomAnalyzer: the index by name and kind, and the {@link} tags of a    *)
(* description, lines 43-54, 78-87, 150-169 and 320-331                     *)
(*                                                                         *)
(* A description is the sequence of its tokens: "{@link", "}", one token    *)
(* per whitespace character, one per run of word characters, one per other  *)
(* character.                                                               *)

BT == "<backtick>"

WordTokens == {"Foo", "Bar", "bar", "see"}

IsWord(token) == token \in WordTokens
IsSpace(token) == token = " "

TYPE_LINK_REPLACERS ==
    << <<"Module", <<":js:mod:", BT, "~", "{}", BT>> >>,
       <<"Function", <<":js:func:", BT, "~", "{}", BT>> >>,
       <<"Method", <<":js:meth:", BT, "~", "{}", BT>> >>,
       <<"Class", <<":js:class:", BT, "~", "{}", BT>> >>,
       <<"Interface", <<":js:class:", BT, "~", "{}", BT>> >>,
       <<"Enumeration", <<":js:class:", BT, "~", "{}", BT>> >>,
       <<"Property", <<":js:attr:", BT, "~", "{}", BT>> >>,
       <<"Accessor", <<":js:meth:", BT, "~", "{}", BT>> >> >>

\* the raw string of line 327: one replacement field named \@link ..\1..
DefaultReplacer == <<"{", "\\@link ", BT, BT, "\\1", BT, BT, "}">>

RECURSIVE Flatten(_)
Flatten(seqs) == IF seqs = << >> THEN << >> ELSE Head(seqs) \o Flatten(Tail(seqs))

\* template.format(arg): "{}" is the positional field; any other field is
\* looked up by its name among the keyword arguments, of which there are none
FormatRaises(template) == \E i \in 1..Len(template) : template[i] = "{"

Format(template, arg) ==
    Flatten([i \in 1..Len(template) |->
                IF template[i] = "{}" THEN <<arg>> ELSE <<template[i]>>])

\* lines 152-154: later nodes of _index overwrite earlier ones of the same key
IndexByNameAndKind(idx) ==
    LET keys == { <<idx[i].name, idx[i].kind>> : i \in DOMAIN idx } IN
    [key \in keys |->
        CHOOSE i \in DOMAIN idx :
            /\ <<idx[i].name, idx[i].kind>> = key
            /\ \A k \in DOMAIN idx : <<idx[k].name, idx[k].kind>> = key => k <= i]

RECURSIVE RoleFrom(_, _, _)
\* lines 164-166 from entry i of TYPE_LINK_REPLACERS on: 0 when no kind matches
RoleFrom(i, type_name, by_name_and_kind) ==
    IF i > Len(TYPE_LINK_REPLACERS) THEN 0
    ELSE IF <<type_name, TYPE_LINK_REPLACERS[i][1]>> \in DOMAIN by_name_and_kind THEN i
    ELSE RoleFrom(i + 1, type_name, by_name_and_kind)

RECURSIVE RoleDownFrom(_, _, _)
RoleDownFrom(i, type_name, by_name_and_kind) ==
    IF i = 0 THEN 0
    ELSE IF <<type_name, TYPE_LINK_REPLACERS[i][1]>> \in DOMAIN by_name_and_kind THEN i
    ELSE RoleDownFrom(i - 1, type_name, by_name_and_kind)

FirstRole_Last(type_name, by_name_and_kind) ==
    RoleDownFrom(Len(TYPE_LINK_REPLACERS), type_name, by_name_and_kind)

FirstRole(type_name, by_name_and_kind) == RoleFrom(1, type_name, by_name_and_kind)

\* lines 163-169 with a default replacer given, as line 327 calls it
GetJsRoleForType(type_name, default_replacer, by_name_and_kind) ==
    LET i == FirstRole(type_name, by_name_and_kind) IN
    IF i # 0
    THEN [exc |-> "", text |-> Format(TYPE_LINK_REPLACERS[i][2], type_name)]
    ELSE IF default_replacer # << >>
    THEN IF FormatRaises(default_replacer)
         THEN [exc |-> "KeyError", text |-> << >>]
         ELSE [exc |-> "", text |-> Format(default_replacer, type_name)]
    ELSE [exc |-> "", text |-> <<type_name>>]

\* description.replace of one backtick by two, line 326
DoubleBackticks(description) ==
    Flatten([i \in 1..Len(description) |->
                IF description[i] = BT THEN <<BT, BT>> ELSE <<description[i]>>])

RECURSIVE SkipSpaces(_, _)
SkipSpaces(tokens, i) ==
    IF i <= Len(tokens) /\ IsSpace(tokens[i]) THEN SkipSpaces(tokens, i + 1) ELSE i

\* LINK_REGEX matched at position i: \{\@link \s+ (\w+) \s* \}
\* gives [end |-> last position, name |-> group 1], or end 0 for no match
LinkMatch(tokens, i) ==
    LET w == SkipSpaces(tokens, i + 1)
        e == SkipSpaces(tokens, w + 1)
    IN  IF /\ tokens[i] = "{@link"
           /\ w > i + 1
           /\ w <= Len(tokens) /\ IsWord(tokens[w])
           /\ e <= Len(tokens) /\ tokens[e] = "}"
        THEN [end |-> e, name |-> tokens[w]]
        ELSE [end |-> 0, name |-> ""]

RECURSIVE LinkSub(_, _, _)
\* LINK_REGEX.sub(lambda m: self._get_js_role_for_type(m[1], default), ...)
\* from position i on: leftmost matches, not overlapping
LinkSub(tokens, i, by_name_and_kind) ==
    IF i > Len(tokens) THEN [exc |-> "", text |-> << >>]
    ELSE LET m == LinkMatch(tokens, i) IN
         IF m.end = 0
         THEN LET rest == LinkSub(tokens, i + 1, by_name_and_kind) IN
              IF rest.exc # "" THEN rest
              ELSE [exc |-> "", text |-> <<tokens[i]>> \o rest.text]
         ELSE LET role == GetJsRoleForType(m.name, DefaultReplacer, by_name_and_kind) IN
              IF role.exc # "" THEN role
              ELSE LET rest == LinkSub(tokens, m.end + 1, by_name_and_kind) IN
                   IF rest.exc # "" THEN rest
                   ELSE [exc |-> "", text |-> role.text \o rest.text]

\* lines 322-327 on the dict the parent class returned; the node has no
\* comment summary, so lines 329-330 do nothing
TopLevelPropertiesOf(result, by_name_and_kind) ==
    LET description == DictGet(result, "description", << >>) IN
    IF description = << >> THEN [exc |-> "", result |-> result]
    ELSE LET relinked == LinkSub(DoubleBackticks(description), 1, by_name_and_kind) IN
         IF relinked.exc # "" THEN [exc |-> relinked.exc, result |-> << >>]
         ELSE [exc |-> "", result |-> [result EXCEPT !.description = relinked.text]]

\* nodes of _index and pieces of a description
MaxNodes == 2
MaxPieces == 2

IndexNodes == [name : {"Foo", "Bar"}, kind : {"Function", "Class", "128"}]

Indexes == SeqsUpTo(IndexNodes, MaxNodes)

Tag(name) == <<"{@link", " ", name, "}">>
TagSpaced(name) == <<"{@link", " ", " ", name, " ", "}">>
TagGlued(name) == <<"{@link", name, "}">>
TagDotted(name) == <<"{@link", " ", name, ".", "bar", "}">>

Pieces ==
    { <<"see">>, <<BT>>, Tag("Foo"), Tag("Bar"), TagSpaced("Foo"), TagGlued("Foo"),
      TagDotted("Foo") }

PieceLists == SeqsUpTo(Pieces, MaxPieces)

NoNode == [pieces |-> << >>, result |-> << >>]
NoProperties == [exc |-> "none", result |-> << >>]

LinksIdle ==
    /\ an_pc = "new"
    /\ index = << >>
    /\ index_by_name_and_kind = << >>
    /\ tlp_node = NoNode
    /\ tlp_result = NoProperties

\* lines 84-86: the attribute is created, the parent class builds _index
AnalyzerInit ==
    /\ an_pc = "new"
    /\ index' \in Indexes
    /\ index_by_name_and_kind' = << >>
    /\ an_pc' = "indexed"
    /\ UNCHANGED <<tlp_node, tlp_result, notLinkVars>>

\* lines 150-157
ConvertAllNodes ==
    /\ an_pc = "indexed"
    /\ index_by_name_and_kind' = IndexByNameAndKind(index)
    /\ an_pc' = "converting"
    /\ UNCHANGED <<index, tlp_node, tlp_result, notLinkVars>>

\* lines 320-331 for a node without comment summary, whose description (as
\* the parent class returns it) is made of the pieces chosen
TopLevelProperties ==
    /\ an_pc = "converting"
    /\ tlp_result = NoProperties
    /\ \E pieces \in PieceLists, described \in BOOLEAN :
          LET result == IF described THEN [description |-> Flatten(pieces)] ELSE << >> IN
          /\ described \/ pieces = << >>
          /\ tlp_node' = [pieces |-> pieces, result |-> result]
          /\ tlp_result' = TopLevelPropertiesOf(result, index_by_name_and_kind)
    /\ UNCHANGED <<an_pc, index, index_by_name_and_kind, notLinkVars>>

\* the caller has taken the properties, or the exception
TopLevelPropertiesEnds ==
    /\ tlp_result # NoProperties
    /\ tlp_node' = NoNode
    /\ tlp_result' = NoProperties
    /\ UNCHANGED <<an_pc, index, index_by_name_and_kind, notLinkVars>>

\* line 87: del self._index_by_name_and_kind
FinishInit ==
    /\ an_pc = "converting"
    /\ tlp_result = NoProperties
    /\ an_pc' = "ready"
    /\ index_by_name_and_kind' = << >>
    /\ UNCHANGED <<index, tlp_node, tlp_result, notLinkVars>>

-----------------------------------------------------------------------------
(* CustomAnalyzer: the comment summary of a node, lines 303-318 and 329-331 *)
(*                                                                         *)
(* A summary is the list of its parts, each a dict with 'kind' and 'text'   *)
(* and, for an inline tag TypeDoc has resolved, 'target': the id of the     *)
(* node the tag links to.  The nodes of _index carry the 'kindString' that  *)
(* the JSON or the groups of their parent gave them, or none.               *)

MaxIds == 2

Ids == 1..MaxIds

KindNodes ==
    { [name |-> "Foo", kind |-> "128"],
      [name |-> "Foo", kind |-> "128", kindString |-> "Class"],
      [name |-> "Foo", kind |-> "128", kindString |-> "Variable"],
      [name |-> "Bar", kind |-> "Class", kindString |-> "Method"] }

\* _index maps the ids the JSON uses to its nodes
KindIndexes == UNION { [ids -> KindNodes] : ids \in SUBSET Ids }

SummaryParts ==
    { [kind |-> "text", text |-> "see"],
      [kind |-> "code", text |-> "bar"],
      [kind |-> "relative-link", text |-> "bar"],
      [kind |-> "inline-tag", text |-> "Bar"] }
    \cup { [kind |-> "inline-tag", text |-> "Bar", target |-> id] : id \in Ids }

MaxParts == 2

Summaries == SeqsUpTo(SummaryParts, MaxParts)

RECURSIVE TemplateFrom(_, _)
\* TYPE_LINK_REPLACERS.get(kind_string) of line 312: << >> for None
TemplateFrom(i, kind_string) ==
    IF i > Len(TYPE_LINK_REPLACERS) THEN << >>
    ELSE IF TYPE_LINK_REPLACERS[i][1] = kind_string THEN TYPE_LINK_REPLACERS[i][2]
    ELSE TemplateFrom(i + 1, kind_string)

\* lines 311-316: what an inline tag yields
InlineTag(part, idx) ==
    IF ~Has(part, "target") THEN [exc |-> "KeyError", parts |-> << >>]
    ELSE LET found == part.target \in DOMAIN idx
             template == IF found /\ Has(idx[part.target], "kindString")
                         THEN TemplateFrom(1, idx[part.target].kindString)
                         ELSE << >>
         IN  IF template # << >>
             THEN [exc |-> "",
                   parts |-> <<Format(template,
                                      DictGet(idx[part.target], "name", part.text))>>]
             ELSE [exc |-> "", parts |-> <<<<BT, BT, part.text, BT, BT>>>>]

\* lines 305-318: what one part of the summary yields
CommentPart(part, idx) ==
    IF part.kind = "text" THEN [exc |-> "", parts |-> <<<<part.text>>>>]
    ELSE IF part.kind = "code" THEN [exc |-> "", parts |-> <<<<BT, part.text, BT>>>>]
    ELSE IF part.kind = "inline-tag" THEN InlineTag(part, idx)
    ELSE [exc |-> "", parts |-> << >>]

RECURSIVE GetCommentParts(_, _)
\* lines 303-318, the generator run to its end
GetCommentParts(summary, idx) ==
    IF summary = << >> THEN [exc |-> "", parts |-> << >>]
    ELSE LET first == CommentPart(Head(summary), idx) IN
         IF first.exc # "" THEN first
         ELSE LET rest == GetCommentParts(Tail(summary), idx) IN
              IF rest.exc # "" THEN rest
              ELSE [exc |-> "", parts |-> first.parts \o rest.parts]

RECURSIVE JoinTokens(_, _)
\* sep.join(parts) on token sequences
JoinTokens(sep, parts) ==
    IF parts = << >> THEN << >>
    ELSE IF Len(parts) = 1 THEN parts[1]
    ELSE parts[1] \o <<sep>> \o JoinTokens(sep, Tail(parts))

\* lines 320-331 for a node whose comment has the summary given
TopLevelPropertiesOfNode(summary, result, idx, by_name_and_kind) ==
    LET relinked == TopLevelPropertiesOf(result, by_name_and_kind) IN
    IF relinked.exc # "" \/ summary = << >> THEN relinked
    ELSE LET parts == GetCommentParts(summary, idx) IN
         IF parts.exc # "" THEN [exc |-> parts.exc, result |-> << >>]
         ELSE [exc |-> "",
               result |-> [k \in DOMAIN relinked.result \cup {"description"} |->
                              IF k = "description" THEN JoinTokens(" ", parts.parts)
                              ELSE relinked.result[k]]]

\* the parent class builds _index from a JSON whose nodes have ids
AnalyzerInitKinds ==
    /\ an_pc = "new"
    /\ index' \in KindIndexes
    /\ index_by_name_and_kind' = << >>
    /\ an_pc' = "indexed"
    /\ UNCHANGED <<tlp_node, tlp_result, notLinkVars>>

\* the descriptions the parent class returns for the nodes with a summary
SummaryPieceLists == { << >>, <<<<"see">>>>, <<Tag("Bar")>> }

\* lines 320-331 for a node with a comment summary
TopLevelPropertiesSummary ==
    /\ an_pc = "converting"
    /\ tlp_result = NoProperties
    /\ \E pieces \in SummaryPieceLists, summary \in Summaries :
          LET result == IF pieces # << >> THEN [description |-> Flatten(pieces)]
                        ELSE << >> IN
          /\ tlp_node' = [pieces |-> pieces, result |-> result, summary |-> summary]
          /\ tlp_result' = TopLevelPropertiesOfNode(summary, result, index,
                                                    index_by_name_and_kind)
    /\ UNCHANGED <<an_pc, index, index_by_name_and_kind, notLinkVars>>

-----------------------------------------------------------------------------
(* CustomAnalyzer._convert_node: the groups of a node, lines 234-240        *)
(*                                                                         *)
(* TypeDoc sorts the children of a node into groups by their kind, so a     *)
(* child is listed under one kind: the group lists here never list a child  *)
(* in two groups that map to different kind strings.                        *)

GroupTitles == {"Classes", "Methods", "Custom"}

NoRepeat(seq) == \A i, j \in DOMAIN seq : seq[i] = seq[j] => i = j

ChildIdLists == { children \in SeqsUpTo(Ids, MaxIds) : NoRepeat(children) }

Groups ==
    { [title |-> t, children |-> c] : t \in GroupTitles, c \in ChildIdLists }
    \cup { [children |-> c] : c \in ChildIdLists }
    \cup { [title |-> "Classes"] }

FurtherGroups ==
    { [title |-> "Methods", children |-> <<1>>],
      [title |-> "Custom", children |-> <<2>>] }

Lists(group) == { DictGet(group, "children", << >>)[i] :
                    i \in DOMAIN DictGet(group, "children", << >>) }

OneKindPerChild(groups) ==
    \A i, j \in DOMAIN groups :
        \/ Lists(groups[i]) \cap Lists(groups[j]) = {}
        \/ KindStringFrom(1, DictGet(groups[i], "title", "")) = ""
        \/ KindStringFrom(1, DictGet(groups[j], "title", "")) = ""
        \/ KindStringFrom(1, DictGet(groups[i], "title", ""))
              = KindStringFrom(1, DictGet(groups[j], "title", ""))

GroupLists ==
    { groups \in {<< >>} \cup { <<g>> : g \in Groups }
                         \cup { <<g, h>> : g \in Groups, h \in FurtherGroups } :
        OneKindPerChild(groups) }

GroupedChains ==
    { <<[kindString |-> k, groups |-> groups]>> :
        k \in {"Class", "Module"}, groups \in GroupLists }

\* _convert_all_nodes of the parent class calls _convert_node for the nodes
GroupsIdle == an_pc = "converting"

\* lines 236-244 for a node with groups
ConvertGroupedNode == GroupsIdle /\ ConvertNodeFrom(GroupedChains)

-----------------------------------------------------------------------------
(* Claims about the module import and _load_typedoc_output *)

InLog(e) == \E i \in 1..Len(load_log) : load_log[i] = e

RECURSIVE AbsoluteOriginalNames(_)
\* the absolute paths stored under an 'originalName' key anywhere in v
AbsoluteOriginalNames(v) ==
    CASE v.j = "str" -> {}
      [] v.j = "list" -> UNION { AbsoluteOriginalNames(v.l[i]) : i \in 1..Len(v.l) }
      [] v.j = "dict" ->
            UNION { (IF key = "originalName" /\ v.d[key].j = "str"
                        /\ IsAbsolute(v.d[key].s)
                     THEN {v.d[key].s} ELSE {})
                    \cup AbsoluteOriginalNames(v.d[key]) : key \in DOMAIN v.d }

\* C1: once the sanitization step of _load_typedoc_output has rewritten
\* typedoc.json, no absolute path is left under an 'originalName' key at any
\* depth of the file, nor of the JSON the call returns.
C1_NoAbsoluteOriginalName ==
    InLog("write") =>
        /\ AbsoluteOriginalNames(typedoc_json) = {}
        /\ load_pc = "returned" => AbsoluteOriginalNames(load_ret) = {}

\* C8: author is package.json's author if present, else the pyproject
\* authors joined by ', ', else exactly 'Fabian Bühler'; copyright is
\* '<copyright-year>, <author>' with the year defaulting to 2021.
C8_AuthorAndCopyright ==
    LET poetry == pyproject_toml.poetry
        sphinx == pyproject_toml.sphinx
        expected ==
            IF Has(package_json, "author") THEN package_json.author
            ELSE IF Has(poetry, "authors") THEN JoinStr(", ", poetry.authors.l)
            ELSE "Fabian Bühler"
        year == IF Has(sphinx, "copyright-year") THEN sphinx["copyright-year"] ELSE 2021
    IN  /\ author = expected
        /\ copyright = PyStrInt(year) \o ", " \o author

\* C10: with SKIP_TYPEDOC or READTHEDOCS equal to 'True' in the environment
\* the call neither runs the command nor writes typedoc.json, and returns the
\* content the file had; otherwise a call that returns has run the command,
\* then read the file, then rewritten it, then read it again for the result.
C10_SkipLeavesFileAlone ==
    LET skip == environ.SKIP_TYPEDOC = "True" \/ environ.READTHEDOCS = "True" IN
    /\ skip =>
          /\ ~InLog("command") /\ ~InLog("write")
          /\ load_pc # "idle" => typedoc_json = load_before
          /\ load_pc = "returned" => load_ret = load_before /\ load_log = <<"read">>
    /\ (~skip /\ load_pc = "returned") =>
          /\ load_log = <<"command", "read", "write", "read">>
          /\ load_ret = typedoc_json

\* a call on Read the Docs alone (SKIP_TYPEDOC itself not set) has returned
C10_Witness ==
    /\ environ.READTHEDOCS = "True"
    /\ environ.SKIP_TYPEDOC # "True"
    /\ load_pc = "returned"
    /\ load_ret = load_before

-----------------------------------------------------------------------------
(* Claims about _type_name *)

IsReflectionOf(type, key) ==
    /\ type.type = "reflection"
    /\ Has(type, "declaration")
    /\ Has(type.declaration, key)
    /\ type.declaration[key] # << >>

RECURSIVE WithType(_)
\* the entries of a list that have a type, in their order
WithType(entries) ==
    IF entries = << >> THEN << >>
    ELSE IF "type" \in DOMAIN Head(entries)
         THEN <<Head(entries)>> \o WithType(Tail(entries))
         ELSE WithType(Tail(entries))

\* the text of a type that is there, NONE for one that is not
TextOf(d, key) == IF Has(d, key) THEN TypeName(d[key]).s ELSE "NONE"

EntryText(p) == p.name \o ": " \o TextOf(p, "type")

EntryTexts(entries) == [i \in 1..Len(entries) |-> EntryText(entries[i])]

\* C4: _type_name of a typeParameter node never raises: it returns the name,
\* followed by 'extends' and the constraint's name when the constraint is a
\* union or a reference, also for a node without constraint.
C4_TypeParameterNeverRaises ==
    tn_type.type = "typeParameter" =>
        /\ tn_result.exc = ""
        /\ tn_result.s =
              IF Has(tn_type, "constraint")
                    /\ tn_type.constraint.type \in {"union", "reference"}
              THEN tn_type.name \o " extends " \o TypeName(tn_type.constraint).s
              ELSE tn_type.name

\* C5: _type_name of a literal node returns the value in double quotes for a
\* string, 'null' for an absent or null value, the plain text of the value
\* otherwise, and never enters the parent class's _type_name.
C5_LiteralText ==
    tn_type.type = "literal" =>
        /\ tn_result.exc = ""
        /\ tn_result.sup = 0
        /\ tn_result.s =
              CASE ~Has(tn_type, "value") -> "null"
                [] Has(tn_type, "value") /\ tn_type.value.j = "null" -> "null"
                [] Has(tn_type, "value") /\ tn_type.value.j = "str" ->
                        "\"" \o tn_type.value.s \o "\""
                [] Has(tn_type, "value") /\ tn_type.value.j = "num" ->
                        PyStrInt(tn_type.value.n)
                [] Has(tn_type, "value") /\ tn_type.value.j = "bool" ->
                        IF tn_type.value.b THEN "True" ELSE "False"

\* a string literal has been rendered
C5_Witness ==
    /\ tn_type.type = "literal"
    /\ Has(tn_type, "value")
    /\ tn_type.value.j = "str"
    /\ tn_result.s = "\"left\""

SignatureText(sig) ==
    "(" \o JoinStr(", ", EntryTexts(WithType(DictGet(sig, "parameters", << >>))))
        \o ") => " \o TextOf(sig, "type")

\* C6: for a reflection whose declaration has signatures, _type_name returns
\* one '(name: type, ...) => returnType' per signature, in order, joined by
\* one space, each listing exactly the parameters that have a type.
C6_SignaturesText ==
    IsReflectionOf(tn_type, "signatures") =>
        /\ tn_result.exc = ""
        /\ tn_result.s =
              JoinStr(" ", [i \in 1..Len(tn_type.declaration.signatures) |->
                                SignatureText(tn_type.declaration.signatures[i])])

IndexSignatureText(sig) ==
    "[" \o (IF DictGet(sig, "parameters", << >>) # << >>
            THEN EntryText(sig.parameters[1]) ELSE "")
        \o "]: " \o TextOf(sig, "type")

IndexSignaturesOf(declaration) ==
    IF ~Has(declaration, "indexSignature") THEN << >>
    ELSE IF declaration.indexSignature.j = "dict" THEN <<declaration.indexSignature.d>>
    ELSE declaration.indexSignature.l

\* C7: for a reflection whose declaration has children and no signatures,
\* _type_name returns '{' + entries joined by ', ' + '}', the entries being
\* 'name: type' per child with a type, then one per index signature; there
\* is no empty entry, so no leading or doubled ', '.
C7_ChildrenText ==
    (IsReflectionOf(tn_type, "children") /\ ~IsReflectionOf(tn_type, "signatures")) =>
        LET declaration == tn_type.declaration
            given == IndexSignaturesOf(declaration)
            entries == EntryTexts(WithType(declaration.children))
                       \o [i \in 1..Len(given) |-> IndexSignatureText(given[i])]
        IN  /\ tn_result.exc = ""
            /\ tn_result.s = "{" \o JoinStr(", ", entries) \o "}"

-----------------------------------------------------------------------------
(* Claims about _top_level_properties and _convert_node *)

LinkedNames == {"Foo", "Bar"}

IsTagOf(piece, name) == piece = Tag(name) \/ piece = TagSpaced(name)

IsTag(piece) == \E name \in LinkedNames : IsTagOf(piece, name)

NameOfTag(piece) == CHOOSE name \in LinkedNames : IsTagOf(piece, name)

KindsIndexedFor(name) ==
    { i \in 1..Len(TYPE_LINK_REPLACERS) :
        <<name, TYPE_LINK_REPLACERS[i][1]>> \in DOMAIN index_by_name_and_kind }

\* the role of the first kind, in declaration order, the name is indexed under
RoleText(name) ==
    LET first == CHOOSE i \in KindsIndexedFor(name) :
                    \A k \in KindsIndexedFor(name) : i <= k
    IN  Format(TYPE_LINK_REPLACERS[first][2], name)

FallbackText(name) == <<"{@link", " ", BT, BT, name, BT, BT, "}">>

\* what a piece of the description becomes
PieceText(piece) ==
    IF IsTag(piece)
    THEN IF KindsIndexedFor(NameOfTag(piece)) # {}
         THEN RoleText(NameOfTag(piece))
         ELSE FallbackText(NameOfTag(piece))
    ELSE IF piece = <<BT>> THEN <<BT, BT>>
    ELSE piece

DescriptionText(pieces) == Flatten([i \in 1..Len(pieces) |-> PieceText(pieces[i])])

TagsWithoutKind(pieces) ==
    { i \in 1..Len(pieces) : IsTag(pieces[i]) /\ KindsIndexedFor(NameOfTag(pieces[i])) = {} }

PropertiesCalled ==
    /\ an_pc = "converting"
    /\ tlp_result # NoProperties
    /\ Has(tlp_node.result, "description")

C3_UnknownTagFallsBack ==
    (PropertiesCalled /\ TagsWithoutKind(tlp_node.pieces) # {}) =>
        /\ tlp_result.exc = ""
        /\ tlp_result.result.description = DescriptionText(tlp_node.pieces)

NodesWithSources == { i \in 1..Len(cn_chain) : Has(cn_chain[i], "sources") }

\* C9: the lookup loop of _convert_node ends, for every chain of '__parent'
\* links: with 'sources' on the node when some node of the chain has them,
\* with a KeyError when none has.
C9_SourceLookupEnds ==
    [](cn_pc = "while" =>
          <>(\/ cn_pc = "rest" /\ Has(cn_chain[1], "sources")
             \/ cn_pc = "KeyError" /\ NodesWithSources = {}))

-----------------------------------------------------------------------------
(* Claims: the comment summary *)

\* the entries of TYPE_LINK_REPLACERS for a kind string
ReplacersOf(kind_string) ==
    { i \in 1..Len(TYPE_LINK_REPLACERS) : TYPE_LINK_REPLACERS[i][1] = kind_string }

\* an inline tag whose target is in _index with a kindString that has a template
HasRole(part, idx) ==
    /\ Has(part, "target")
    /\ part.target \in DOMAIN idx
    /\ Has(idx[part.target], "kindString")
    /\ ReplacersOf(idx[part.target].kindString) # {}

\* the renderings a part contributes: one, or none for a part of another kind
RenderedPart(part, idx) ==
    IF part.kind = "text" THEN <<<<part.text>>>>
    ELSE IF part.kind = "code" THEN <<<<BT, part.text, BT>>>>
    ELSE IF part.kind = "inline-tag"
    THEN IF HasRole(part, idx)
         THEN LET i == CHOOSE i \in ReplacersOf(idx[part.target].kindString) : TRUE IN
              <<<<TYPE_LINK_REPLACERS[i][2][1], BT, "~", idx[part.target].name, BT>>>>
         ELSE <<<<BT, BT, part.text, BT, BT>>>>
    ELSE << >>

RenderedParts(summary, idx) ==
    Flatten([i \in 1..Len(summary) |-> RenderedPart(summary[i], idx)])

\* the renderings in order, one space between two neighbours
SummaryText(summary, idx) ==
    LET rendered == RenderedParts(summary, idx) IN
    Flatten([i \in 1..Len(rendered) |->
                IF i = 1 THEN rendered[i] ELSE <<" ">> \o rendered[i]])

SummaryCalled ==
    /\ tlp_result # NoProperties
    /\ Has(tlp_node, "summary")
    /\ tlp_node.summary # << >>

\* C11: for a node with a non-empty comment summary, the description returned
\* is the rendered parts of the summary joined by single spaces, in order,
\* whatever description the parent class computed: text as it is, code in
\* single backticks, an inline tag as the role of its target's kindString
\* formatted with the target's name when the target is in _index and the
\* kindString has a template, in double backticks otherwise, nothing for a
\* part of another kind
C11_SummaryIsDescription ==
    SummaryCalled =>
        /\ tlp_result.exc = ""
        /\ Has(tlp_result.result, "description")
        /\ tlp_result.result.description = SummaryText(tlp_node.summary, index)

\* the same for the calls that return
C11_ReturnedSummaryIsDescription ==
    SummaryCalled /\ tlp_result.exc = "" =>
        /\ Has(tlp_result.result, "description")
        /\ tlp_result.result.description = SummaryText(tlp_node.summary, index)

-----------------------------------------------------------------------------
(* Claims: the groups of a node *)

\* the kind strings GROUP_TO_KIND_STRING has for a title
MappedKindStrings(title) ==
    { GROUP_TO_KIND_STRING[i][2] :
        i \in { k \in 1..Len(GROUP_TO_KIND_STRING) : GROUP_TO_KIND_STRING[k][1] = title } }

\* the kind strings of the mapped groups that list the id
KindStringsFor(node, id) ==
    UNION { MappedKindStrings(DictGet(node.groups[i], "title", "")) :
              i \in { k \in DOMAIN node.groups : id \in Lists(node.groups[k]) } }

ListedIds(node) == UNION { Lists(node.groups[i]) : i \in DOMAIN node.groups }

-----------------------------------------------------------------------------
(* Specifications *)

NothingElseRuns == TypesIdle /\ LinksIdle /\ SourcesIdle

\* the import of conf.py and the builds that call _load_typedoc_output
Init ==
    /\ ConfImported(Environs, PackageJsons, PyprojectTomls)
    /\ LoadIdle(PriorDocs)
    /\ NothingElseRuns

Next == LoadTypedocOutput \/ RunCommand \/ Sanitize \/ FinalRead \/ NextBuild

Spec == Init /\ [][Next]_vars

\* the calls of _type_name
InitTypes == ConfDeveloper /\ LoadIdle({NoDoc}) /\ NothingElseRuns

NextTypes == TypeNameCall \/ TypeNameEnds

SpecTypes == InitTypes /\ [][NextTypes]_vars

\* the construction of a CustomAnalyzer and its _top_level_properties calls
InitLinks == ConfDeveloper /\ LoadIdle({NoDoc}) /\ NothingElseRuns

NextLinks ==
    \/ AnalyzerInit
    \/ ConvertAllNodes
    \/ TopLevelProperties
    \/ TopLevelPropertiesEnds
    \/ FinishInit

SpecLinks == InitLinks /\ [][NextLinks]_vars

\* the construction of a CustomAnalyzer over nodes with ids, and its
\* _top_level_properties calls for nodes with a comment summary
InitSummary == ConfDeveloper /\ LoadIdle({NoDoc}) /\ NothingElseRuns

NextSummary ==
    \/ AnalyzerInitKinds
    \/ ConvertAllNodes
    \/ TopLevelPropertiesSummary
    \/ TopLevelPropertiesEnds
    \/ FinishInit

SpecSummary == InitSummary /\ [][NextSummary]_vars

\* the construction of a CustomAnalyzer over nodes with ids, and the
\* _convert_node calls for nodes with groups
InitGroups == ConfDeveloper /\ LoadIdle({NoDoc}) /\ NothingElseRuns

NextGroups ==
    \/ AnalyzerInitKinds
    \/ ConvertAllNodes
    \/ ConvertGroupedNode
    \/ ConvertNodeEnds

SpecGroups == InitGroups /\ [][NextGroups]_vars

\* the calls of _convert_node, statement by statement
InitSources == ConfDeveloper /\ LoadIdle({NoDoc}) /\ NothingElseRuns

NextSources ==
    \/ ConvertNode
    \/ WhileParent
    \/ IfSourcesInParent
    \/ AssignParent
    \/ CopySources
    \/ ConvertNodeEnds

SpecSources == InitSources /\ [][NextSources]_vars

\* the interpreter keeps running a call that has started
SpecSourcesFair == SpecSources /\ WF_vars(NextSources)

=============================================================================
